---- MODULE Spec2Model ----
(***************************************************************************)
(* getoptmm: basic_option<String>, basic_parser<String>::run and get_help. *)
(*                                                                         *)
(* A string is a sequence of one-character strings, so that the regular    *)
(* expressions, the prefix comparison of basic_option::match and the       *)
(* slicing of a short-option cluster are computed character by character.  *)
(* A handler invocation is one record appended to `calls`.                  *)
(***************************************************************************)
EXTENDS Integers, Sequences, FiniteSets, TLC

VARIABLES
    m_options,      \* basic_parser::m_options, the Option sequence
    m_flag,         \* basic_parser::m_flag: "none" or "posixly_correct"
    unrec_default,  \* TRUE: m_unrec_option_handler is the throwing default
    argv,           \* the token range [first, last) handed to run
    it,             \* cursor of the outer loop of run (last is Len(argv) + 1)
    cit,            \* cursor of the short-option loop, an index into argv[it]
    pc,             \* "scan", "cluster", "done" (run returned), "failed" (run threw)
    calls,          \* handler invocations made so far, in order
    err,            \* the basic_parse_error thrown, NoError before
    cls,            \* for each token, how the scan has accounted for it
    header,         \* the argument of basic_parser::get_help
    helps,          \* get_help: the std::array<string_type, 3> of each option so far
    col0,           \* get_help: width of the column of the short names
    col1,           \* get_help: width of the column of the long names
    ss,             \* get_help: the characters written to the stringstream
    help_it,        \* get_help: cursor of the loop over `helps`
    help_pc         \* "idle", "collect", "write", "returned"

get_help_vars == <<header, helps, col0, col1, ss, help_it, help_pc>>

vars == <<m_options, m_flag, unrec_default, argv, it, cit, pc, calls, err, cls,
          get_help_vars>>

\* what run leaves alone
config == <<m_options, m_flag, unrec_default, argv, get_help_vars>>

\* what get_help leaves alone
run_vars == <<m_options, m_flag, unrec_default, argv, it, cit, pc, calls, err, cls>>

----------------------------------------------------------------------------
(* Bounds *)

MaxArgs == 3

\* longest token range of the runs whose termination is analysed
MaxFairArgs == 2

\* longest Option sequence of a parser whose help is taken
MaxOptions == 3

----------------------------------------------------------------------------
(* The parser under analysis and the tokens it is run on *)

\* option{{'a'}, {"ab","ac"}, no_arg, ...}
\* option{{'b'}, {"bc","da"}, required_arg, ...}
\* option{{'c'}, {"bcd","cd"}, optional_arg, ...}
Options ==
    << [m_short_names |-> <<"a">>,
        m_long_names  |-> << <<"a","b">>, <<"a","c">> >>,
        m_arg_type    |-> "none"],
       [m_short_names |-> <<"b">>,
        m_long_names  |-> << <<"b","c">>, <<"d","a">> >>,
        m_arg_type    |-> "required"],
       [m_short_names |-> <<"c">>,
        m_long_names  |-> << <<"b","c","d">>, <<"c","d">> >>,
        m_arg_type    |-> "optional"] >>

\* option{{'a'}, {"ab","ca"}, no_arg, ...}
\* option{{'a','b'}, {"ab","da"}, required_arg, ...}
\* an ill-formed declaration: the short name a and the long name ab are
\* declared by both Options
ClashingOptions ==
    << [m_short_names |-> <<"a">>,
        m_long_names  |-> << <<"a","b">>, <<"c","a">> >>,
        m_arg_type    |-> "none"],
       [m_short_names |-> <<"a","b">>,
        m_long_names  |-> << <<"a","b">>, <<"d","a">> >>,
        m_arg_type    |-> "required"] >>

\* option{{'a','b'}, {"ab","da"}, required_arg, ...}
\* option{{'c'}, {"d"}, no_arg, ...}
\* option{{'a'}, {"ab","ca","dc"}, no_arg, ...}
\* the clashing Options in the opposite order with an Option between them,
\* whose long name d is a proper prefix of a name of each of the two
SpreadClashingOptions ==
    << [m_short_names |-> <<"a","b">>,
        m_long_names  |-> << <<"a","b">>, <<"d","a">> >>,
        m_arg_type    |-> "required"],
       [m_short_names |-> <<"c">>,
        m_long_names  |-> << <<"d">> >>,
        m_arg_type    |-> "none"],
       [m_short_names |-> <<"a">>,
        m_long_names  |-> << <<"a","b">>, <<"c","a">>, <<"d","c">> >>,
        m_arg_type    |-> "none"] >>

\* option{{'a'}, {}, no_arg, ...}
\* option{{'c'}, {"cd"}, optional_arg, ...}
\* one Option alone has a long name
SoleLongOptions ==
    << [m_short_names |-> <<"a">>,
        m_long_names  |-> <<>>,
        m_arg_type    |-> "none"],
       [m_short_names |-> <<"c">>,
        m_long_names  |-> << <<"c","d">> >>,
        m_arg_type    |-> "optional"] >>

\* option{{'a'}, {}, no_arg, ...}
\* no Option has a long name
NoLongOptions ==
    << [m_short_names |-> <<"a">>,
        m_long_names  |-> <<>>,
        m_arg_type    |-> "none"] >>

\* tokens for Options: long options by exact name and by prefix
LongTokens ==
    { <<"-","-">>,                      \* --
      <<"d">>,                          \* d
      <<"-","-","a">>,                  \* --a      prefix of ab and ac
      <<"-","-","a","=">>,              \* --a=
      <<"-","-","b">>,                  \* --b      prefix of bc and bcd
      <<"-","-","b","c">>,              \* --bc     equals bc, prefix of bcd
      <<"-","-","d","d","=","a">>,      \* --dd=a   no such name
      <<"-","a">> }                     \* -a

\* tokens for Options: long options with and without a value
LongValueTokens ==
    { <<"-","-">>,                      \* --
      <<"-">>,                          \* -
      <<"d">>,                          \* d
      <<"-","-","b","c">>,              \* --bc     equals bc, prefix of bcd
      <<"-","-","d","=","=">>,          \* --d==    prefix of da
      <<"-","-","c">>,                  \* --c      prefix of cd
      <<"-","-","c","=">>,              \* --c=
      <<"-","-","c","=","\n">> }        \* --c=<LF>

\* tokens for Options: short-option clusters of declared names
ShortTokens ==
    { <<"-","-">>,                      \* --
      <<"d">>,                          \* d
      <<"-","a">>,                      \* -a
      <<"-","a","b">>,                  \* -ab
      <<"-","a","b","d">>,              \* -abd
      <<"-","c">>,                      \* -c
      <<"-","c","a">>,                  \* -ca
      <<"-","-","c">> }                 \* --c

\* tokens for Options: short-option clusters and what may follow them
ShortValueTokens ==
    { <<"-","-">>,                      \* --
      <<"-">>,                          \* -
      <<"d">>,                          \* d
      <<"-","a">>,                      \* -a
      <<"-","a","b">>,                  \* -ab
      <<"-","d","a">>,                  \* -da      no short name d
      <<"-","a","\n">>,                 \* -a<LF>
      <<"-","-","b","c">> }             \* --bc

\* tokens for ClashingOptions
ClashingTokens ==
    { <<"-","-">>,                      \* --
      <<"d">>,                          \* d
      <<"-","a">>,                      \* -a       short name of both
      <<"-","b">>,                      \* -b
      <<"-","-","a","b">>,              \* --ab     long name of both
      <<"-","-","d">>,                  \* --d      prefix of da
      <<"-","-","=","a">>,              \* --=a     empty name
      <<"-","-","c","a","=","d">> }     \* --ca=d

\* tokens for SpreadClashingOptions
SpreadClashingTokens ==
    { <<"-","-">>,                      \* --
      <<"d">>,                          \* d
      <<"-","a">>,                      \* -a       short name of the first and the last
      <<"-","c","a">>,                  \* -ca
      <<"-","-","a","b">>,              \* --ab     long name of the first and the last
      <<"-","-","d">> }                 \* --d      equals d, prefix of da and dc

\* tokens for SoleLongOptions and NoLongOptions
EmptyNameTokens ==
    { <<"-","-","=","a">>,              \* --=a     the empty name
      <<"-","-","c">>,                  \* --c
      <<"-","a">>,                      \* -a
      <<"d">> }                         \* d

\* the parsers analysed, each with the tokens it is run on
Parsers ==
    { [options |-> Options, tokens |-> LongTokens],
      [options |-> Options, tokens |-> LongValueTokens],
      [options |-> Options, tokens |-> ShortTokens],
      [options |-> Options, tokens |-> ShortValueTokens],
      [options |-> ClashingOptions, tokens |-> ClashingTokens],
      [options |-> SpreadClashingOptions, tokens |-> SpreadClashingTokens],
      [options |-> SoleLongOptions, tokens |-> EmptyNameTokens],
      [options |-> NoLongOptions, tokens |-> EmptyNameTokens] }

RECURSIVE SeqsUpTo(_, _)
SeqsUpTo(S, n) ==
    IF n = 0 THEN { <<>> }
    ELSE LET shorter == SeqsUpTo(S, n - 1)
         IN  shorter \cup { Append(s, x) : s \in shorter, x \in S }

----------------------------------------------------------------------------
(* Strings *)

\* `.` of an ECMAScript std::regex matches any character but these
LineTerminators == { "\n", "\r" }

Suffix(s, i) == SubSeq(s, i, Len(s))

\* std::mismatch(s.begin(), s.end(), name.begin()).first == s.end()
MismatchAtEnd(s, name) ==
    \A i \in 1..Len(s) : s[i] = name[i]

----------------------------------------------------------------------------
(* basic_option *)

\* match without the partial case
RECURSIVE match_string_from_ExactOnly(_, _, _, _)
match_string_from_ExactOnly(names, s, j, ret) ==
    IF j > Len(names) THEN ret
    ELSE IF names[j] = s THEN "exact"
    ELSE match_string_from_ExactOnly(names, s, j + 1, ret)

\* match in which the empty string is a partial match of no name
RECURSIVE match_string_from_NonEmptyPartial(_, _, _, _)
match_string_from_NonEmptyPartial(names, s, j, ret) ==
    IF j > Len(names) THEN ret
    ELSE IF names[j] = s THEN "exact"
    ELSE IF s # <<>> /\ Len(s) < Len(names[j]) /\ MismatchAtEnd(s, names[j])
         THEN match_string_from_NonEmptyPartial(names, s, j + 1, "partial")
         ELSE match_string_from_NonEmptyPartial(names, s, j + 1, ret)

RECURSIVE match_string_from(_, _, _, _)
match_string_from(names, s, j, ret) ==
    IF j > Len(names) THEN ret
    ELSE IF names[j] = s THEN "exact"
    ELSE IF Len(s) < Len(names[j]) /\ MismatchAtEnd(s, names[j])
         THEN match_string_from(names, s, j + 1, "partial")
         ELSE match_string_from(names, s, j + 1, ret)

\* match_type match(string_type const &s) const
match_string(opt, s) == match_string_from(opt.m_long_names, s, 1, "none")

\* match_type match(char_type c) const
match_char(opt, c) ==
    IF \E j \in 1..Len(opt.m_short_names) : opt.m_short_names[j] = c
    THEN "exact" ELSE "none"

get_arg_type(opt) == opt.m_arg_type

\* the handler call made by execute(): m_handler(nullptr)
execute0(k, tok) == [h |-> "option", opt |-> k, arg |-> <<>>, tok |-> tok]

\* the handler call made by execute(arg): m_handler(&arg)
execute1(k, a, tok) == [h |-> "option", opt |-> k, arg |-> <<a>>, tok |-> tok]

----------------------------------------------------------------------------
(* basic_parser *)

non_option_handler(a, tok) == [h |-> "non_option", opt |-> 0, arg |-> <<a>>, tok |-> tok]

unrec_option_handler(a, tok) == [h |-> "unrec_option", opt |-> 0, arg |-> <<a>>, tok |-> tok]

NoError == [msg |-> "", what |-> <<>>]

error(msg, what) == [msg |-> msg, what |-> what]

last == Len(argv) + 1

End == Len(m_options) + 1

arg == argv[it]

\* index of the first `=` of the token at or after position 3, 0 when none
RECURSIVE FirstEq(_, _)
FirstEq(s, i) ==
    IF i > Len(s) THEN 0
    ELSE IF s[i] = "=" THEN i
    ELSE FirstEq(s, i + 1)

\* std::regex_match(arg, match, regex("--([^=]*)(?:=(.*))?"))
regex_long(s) ==
    /\ Len(s) >= 2
    /\ s[1] = "-"
    /\ s[2] = "-"
    /\ LET e == FirstEq(s, 3)
       IN  e # 0 => \A i \in (e + 1)..Len(s) : s[i] \notin LineTerminators

\* match.str(1)
match1(s) ==
    LET e == FirstEq(s, 3)
    IN  IF e = 0 THEN Suffix(s, 3) ELSE SubSeq(s, 3, e - 1)

\* match[2].matched
match2_matched(s) == FirstEq(s, 3) # 0

\* match[2] of a regex whose first group is `.*`: the text after the last `=`
RECURSIVE LastEq(_, _)
LastEq(s, i) ==
    IF i < 3 THEN 0
    ELSE IF s[i] = "=" THEN i
    ELSE LastEq(s, i - 1)

match2_AfterLastEq(s) == Suffix(s, LastEq(s, Len(s)) + 1)

\* match[2]
match2(s) == Suffix(s, FirstEq(s, 3) + 1)

\* the regex -(.*), which matches the token `-` too
regex_short_AllowEmpty(s) ==
    /\ Len(s) >= 1
    /\ s[1] = "-"
    /\ \A i \in 2..Len(s) : s[i] \notin LineTerminators


\* std::regex_match(arg, match, regex("-(.+)"))
regex_short(s) ==
    /\ Len(s) >= 2
    /\ s[1] = "-"
    /\ \A i \in 2..Len(s) : s[i] \notin LineTerminators

\* find_match of the long-option branch: first option at or after `from`
\* whose match(name) is n, End when there is none
find_match_long(from, name, n) ==
    LET found == { k \in from..Len(m_options) : match_string(m_options[k], name) = n }
    IN  IF found = {} THEN End
        ELSE CHOOSE k \in found : \A k2 \in found : k <= k2

\* find_match of the short-option branch
find_match_short(from, c) ==
    LET found == { k \in from..Len(m_options) : match_char(m_options[k], c) = "exact" }
    IN  IF found = {} THEN End
        ELSE CHOOSE k \in found : \A k2 \in found : k <= k2

\* the lookup that tests the partial matches for ambiguity before it looks
\* for an exact match
long_lookup_PartialsFirst(name) ==
    LET ex == find_match_long(1, name, "exact")
        pa == find_match_long(1, name, "partial")
        optit == IF ex # End THEN ex ELSE pa
    IN  IF ex = End /\ pa = End
            THEN [sel |-> "unrec", opt |-> End]
        ELSE IF pa # End /\ find_match_long(pa + 1, name, "partial") # End
            THEN [sel |-> "ambiguous", opt |-> End]
        ELSE IF find_match_long(optit + 1, name, "exact") # End
            THEN [sel |-> "ambiguous", opt |-> End]
        ELSE [sel |-> "option", opt |-> optit]


\* the lookup without the second find_match over the partial matches
long_lookup_FirstPartial(name) ==
    LET ex == find_match_long(1, name, "exact")
        pa == find_match_long(1, name, "partial")
        optit == IF ex # End THEN ex ELSE pa
    IN  IF ex = End /\ pa = End
            THEN [sel |-> "unrec", opt |-> End]
        ELSE IF find_match_long(optit + 1, name, "exact") # End
            THEN [sel |-> "ambiguous", opt |-> End]
        ELSE [sel |-> "option", opt |-> optit]

\* lines 305-318: the option a long name selects
\* sel = "unrec": no option, "ambiguous": the throw, "option": optit = opt
long_lookup(name) ==
    LET ex == find_match_long(1, name, "exact")
        pa == find_match_long(1, name, "partial")
        optit == IF ex # End THEN ex ELSE pa
    IN  IF ex = End /\ pa = End
            THEN [sel |-> "unrec", opt |-> End]
        ELSE IF ex = End /\ find_match_long(pa + 1, name, "partial") # End
            THEN [sel |-> "ambiguous", opt |-> End]
        ELSE IF find_match_long(optit + 1, name, "exact") # End
            THEN [sel |-> "ambiguous", opt |-> End]
        ELSE [sel |-> "option", opt |-> optit]

\* the lookup that looks for a second match in the next Option only
short_lookup_NextOnly(c) ==
    LET optit == find_match_short(1, c)
    IN  IF optit = End
            THEN [sel |-> "unrec", opt |-> End]
        ELSE IF optit + 1 # End /\ match_char(m_options[optit + 1], c) = "exact"
            THEN [sel |-> "ambiguous", opt |-> End]
        ELSE [sel |-> "option", opt |-> optit]


\* lines 351-358: the option a short name selects
short_lookup(c) ==
    LET optit == find_match_short(1, c)
    IN  IF optit = End
            THEN [sel |-> "unrec", opt |-> End]
        ELSE IF find_match_short(optit + 1, c) # End
            THEN [sel |-> "ambiguous", opt |-> End]
        ELSE [sel |-> "option", opt |-> optit]

----------------------------------------------------------------------------
(* basic_parser::run as a function of the parser and of the range *)

\* find_match of the long-option branch over the options `opts`
find_match_long_of(opts, from, name, n) ==
    LET found == { k \in from..Len(opts) : match_string(opts[k], name) = n }
    IN  IF found = {} THEN Len(opts) + 1
        ELSE CHOOSE k \in found : \A k2 \in found : k <= k2

\* find_match of the short-option branch over the options `opts`
find_match_short_of(opts, from, c) ==
    LET found == { k \in from..Len(opts) : match_char(opts[k], c) = "exact" }
    IN  IF found = {} THEN Len(opts) + 1
        ELSE CHOOSE k \in found : \A k2 \in found : k <= k2

\* lines 305-318 over the options `opts`
long_lookup_of(opts, name) ==
    LET end == Len(opts) + 1
        ex == find_match_long_of(opts, 1, name, "exact")
        pa == find_match_long_of(opts, 1, name, "partial")
        optit == IF ex # end THEN ex ELSE pa
    IN  IF ex = end /\ pa = end
            THEN [sel |-> "unrec", opt |-> end]
        ELSE IF ex = end /\ find_match_long_of(opts, pa + 1, name, "partial") # end
            THEN [sel |-> "ambiguous", opt |-> end]
        ELSE IF find_match_long_of(opts, optit + 1, name, "exact") # end
            THEN [sel |-> "ambiguous", opt |-> end]
        ELSE [sel |-> "option", opt |-> optit]

\* the lookup that takes the first Option that has the short name
short_lookup_of_FirstMatch(opts, c) ==
    LET end == Len(opts) + 1
        optit == find_match_short_of(opts, 1, c)
    IN  IF optit = end
            THEN [sel |-> "unrec", opt |-> end]
        ELSE [sel |-> "option", opt |-> optit]


\* lines 351-358 over the options `opts`
short_lookup_of(opts, c) ==
    LET end == Len(opts) + 1
        optit == find_match_short_of(opts, 1, c)
    IN  IF optit = end
            THEN [sel |-> "unrec", opt |-> end]
        ELSE IF find_match_short_of(opts, optit + 1, c) # end
            THEN [sel |-> "ambiguous", opt |-> end]
        ELSE [sel |-> "option", opt |-> optit]

\* the handler invocations of a run and the error it threw, NoError when it
\* returned
outcome(cs, e) == [calls |-> cs, err |-> e]

\* lines 288-294 and 378-383: the tokens from i on go to the non-option handler
rest_to_non_option(av, i) ==
    [j \in 1..(Len(av) - i + 1) |-> non_option_handler(av[i + j - 1], i + j - 1)]

RECURSIVE run_from(_, _, _, _, _, _)
RECURSIVE run_cluster(_, _, _, _, _, _, _)

\* lines 344-377: the for loop over the cluster av[i] from position c on,
\* cs the invocations made so far
run_cluster(opts, flag, dflt, av, i, c, cs) ==
    IF c > Len(av[i]) THEN run_from(opts, flag, dflt, av, i + 1, cs)
    ELSE
    LET lk == short_lookup_of(opts, av[i][c])
        rem == <<"-">> \o Suffix(av[i], c)
    IN  IF lk.sel = "unrec"
            THEN IF dflt
                 THEN outcome(Append(cs, unrec_option_handler(rem, i)),
                              error("unrecognized option: ", rem))
                 ELSE run_cluster(opts, flag, dflt, av, i, c + 1,
                                  Append(cs, unrec_option_handler(rem, i)))
        ELSE IF lk.sel = "ambiguous"
            THEN outcome(cs, error("ambiguous option: ", <<"-", av[i][c]>>))
        ELSE IF get_arg_type(opts[lk.opt]) = "none"
            THEN run_cluster(opts, flag, dflt, av, i, c + 1,
                             Append(cs, execute0(lk.opt, i)))
        ELSE IF get_arg_type(opts[lk.opt]) = "optional"
            THEN run_from(opts, flag, dflt, av, i + 1,
                          Append(cs, IF c = Len(av[i])
                                        THEN execute0(lk.opt, i)
                                        ELSE execute1(lk.opt, Suffix(av[i], c + 1), i)))
        ELSE IF c # Len(av[i])
            THEN run_from(opts, flag, dflt, av, i + 1,
                          Append(cs, execute1(lk.opt, Suffix(av[i], c + 1), i)))
        ELSE IF i = Len(av)
            THEN outcome(cs, error("argument required: ", <<"-", av[i][c]>>))
        ELSE run_from(opts, flag, dflt, av, i + 2,
                      Append(cs, execute1(lk.opt, av[i + 1], i)))

\* lines 283-388: the for loop over the range av from token i on
run_from(opts, flag, dflt, av, i, cs) ==
    IF i > Len(av) THEN outcome(cs, NoError)
    ELSE IF av[i] = <<"-","-">>
        THEN outcome(cs \o rest_to_non_option(av, i + 1), NoError)
    ELSE IF regex_long(av[i])
        THEN LET name == match1(av[i])
                 lk == long_lookup_of(opts, name)
             IN  IF lk.sel = "unrec"
                     THEN IF dflt
                          THEN outcome(Append(cs, unrec_option_handler(av[i], i)),
                                       error("unrecognized option: ", av[i]))
                          ELSE run_from(opts, flag, dflt, av, i + 1,
                                        Append(cs, unrec_option_handler(av[i], i)))
                 ELSE IF lk.sel = "ambiguous"
                     THEN outcome(cs, error("ambiguous option: ", <<"-","-">> \o name))
                 ELSE IF get_arg_type(opts[lk.opt]) = "none"
                     THEN IF match2_matched(av[i])
                          THEN outcome(cs, error("argument not allowed: ",
                                                 <<"-","-">> \o name))
                          ELSE run_from(opts, flag, dflt, av, i + 1,
                                        Append(cs, execute0(lk.opt, i)))
                 ELSE IF get_arg_type(opts[lk.opt]) = "optional"
                     THEN run_from(opts, flag, dflt, av, i + 1,
                                   Append(cs, IF match2_matched(av[i])
                                                 THEN execute1(lk.opt, match2(av[i]), i)
                                                 ELSE execute0(lk.opt, i)))
                 ELSE IF match2_matched(av[i])
                     THEN run_from(opts, flag, dflt, av, i + 1,
                                   Append(cs, execute1(lk.opt, match2(av[i]), i)))
                 ELSE IF i = Len(av)
                     THEN outcome(cs, error("argument required: ", <<"-","-">> \o name))
                 ELSE run_from(opts, flag, dflt, av, i + 2,
                               Append(cs, execute1(lk.opt, av[i + 1], i)))
    ELSE IF regex_short(av[i])
        THEN run_cluster(opts, flag, dflt, av, i, 2, cs)
    ELSE IF flag = "posixly_correct"
        THEN outcome(cs \o rest_to_non_option(av, i), NoError)
    ELSE run_from(opts, flag, dflt, av, i + 1, Append(cs, non_option_handler(av[i], i)))

\* run(first, last) of a parser with the options `opts`
run(opts, flag, dflt, av) == run_from(opts, flag, dflt, av, 1, <<>>)

----------------------------------------------------------------------------
(* basic_parser::run, step by step *)

InLong  == pc = "scan" /\ it # last /\ arg # <<"-","-">> /\ regex_long(arg)

InShort == pc = "cluster" /\ cit <= Len(arg)

\* the throw statements of run
Throw(msg, what) ==
    /\ pc' = "failed"
    /\ err' = error(msg, what)

Init ==
    /\ \E p \in Parsers :
          /\ m_options = p.options
          /\ argv \in SeqsUpTo(p.tokens, MaxArgs)
    /\ m_flag \in { "none", "posixly_correct" }
    /\ unrec_default \in BOOLEAN
    /\ it = 1
    /\ cit = 0
    /\ pc = "scan"
    /\ calls = <<>>
    /\ err = NoError
    /\ cls = [i \in 1..Len(argv) |-> "unseen"]
    /\ header = <<>>
    /\ helps = <<>>
    /\ col0 = 0
    /\ col1 = 0
    /\ ss = <<>>
    /\ help_it = 0
    /\ help_pc = "idle"

\* RunSeparator that skips `--` and goes on scanning
RunSeparator_KeepScanning ==
    /\ pc = "scan" /\ it # last
    /\ arg = <<"-","-">>
    /\ cls' = [cls EXCEPT ![it] = "separator"]
    /\ it' = it + 1
    /\ UNCHANGED <<config, cit, pc, calls, err>>

\* lines 288-294: arg == "--"
RunSeparator ==
    /\ pc = "scan" /\ it # last
    /\ arg = <<"-","-">>
    /\ calls' = calls \o [j \in 1..(Len(argv) - it) |->
                            non_option_handler(argv[it + j], it + j)]
    /\ cls' = [i \in 1..Len(argv) |->
                 IF i = it THEN "separator" ELSE IF i > it THEN "rest" ELSE cls[i]]
    /\ it' = last
    /\ pc' = "done"
    /\ UNCHANGED <<config, cit, err>>

\* RunLongUnrecognized that reports `--` + name in place of the token
RunLongUnrecognized_NameOnly ==
    /\ InLong
    /\ long_lookup(match1(arg)).sel = "unrec"
    /\ calls' = Append(calls, unrec_option_handler(<<"-","-">> \o match1(arg), it))
    /\ cls' = [cls EXCEPT ![it] = "long"]
    /\ IF unrec_default
          THEN Throw("unrecognized option: ", <<"-","-">> \o match1(arg)) /\ UNCHANGED it
          ELSE it' = it + 1 /\ UNCHANGED <<pc, err>>
    /\ UNCHANGED <<config, cit>>

\* lines 305-311: no option matches the long name
RunLongUnrecognized ==
    /\ InLong
    /\ long_lookup(match1(arg)).sel = "unrec"
    /\ calls' = Append(calls, unrec_option_handler(arg, it))
    /\ cls' = [cls EXCEPT ![it] = "long"]
    /\ IF unrec_default
          THEN Throw("unrecognized option: ", arg) /\ UNCHANGED it
          ELSE it' = it + 1 /\ UNCHANGED <<pc, err>>
    /\ UNCHANGED <<config, cit>>

\* RunLongAmbiguous that hands the tokens after the ambiguous one to the
\* non-option handler before it throws
RunLongAmbiguous_AfterRest ==
    /\ InLong
    /\ long_lookup(match1(arg)).sel = "ambiguous"
    /\ calls' = calls \o rest_to_non_option(argv, it + 1)
    /\ cls' = [cls EXCEPT ![it] = "long"]
    /\ Throw("ambiguous option: ", <<"-","-">> \o match1(arg))
    /\ UNCHANGED <<config, it, cit>>

\* lines 312-318: throw error("ambiguous option: --" + name)
RunLongAmbiguous ==
    /\ InLong
    /\ long_lookup(match1(arg)).sel = "ambiguous"
    /\ cls' = [cls EXCEPT ![it] = "long"]
    /\ Throw("ambiguous option: ", <<"-","-">> \o match1(arg))
    /\ UNCHANGED <<config, it, cit, calls>>

\* RunLongNone without the test of match[2].matched
RunLongNone_IgnoreValue ==
    /\ InLong
    /\ LET lk == long_lookup(match1(arg))
       IN  /\ lk.sel = "option"
           /\ get_arg_type(m_options[lk.opt]) = "none"
           /\ calls' = Append(calls, execute0(lk.opt, it))
    /\ cls' = [cls EXCEPT ![it] = "long"]
    /\ it' = it + 1
    /\ UNCHANGED <<config, cit, pc, err>>

\* lines 321-325: n == arg_type::none
RunLongNone ==
    /\ InLong
    /\ LET lk == long_lookup(match1(arg))
       IN  /\ lk.sel = "option"
           /\ get_arg_type(m_options[lk.opt]) = "none"
           /\ cls' = [cls EXCEPT ![it] = "long"]
           /\ IF match2_matched(arg)
                 THEN /\ Throw("argument not allowed: ", <<"-","-">> \o match1(arg))
                      /\ UNCHANGED <<it, calls>>
                 ELSE /\ calls' = Append(calls, execute0(lk.opt, it))
                      /\ it' = it + 1
                      /\ UNCHANGED <<pc, err>>
    /\ UNCHANGED <<config, cit>>

\* lines 326-331: n == arg_type::optional
RunLongOptional ==
    /\ InLong
    /\ LET lk == long_lookup(match1(arg))
       IN  /\ lk.sel = "option"
           /\ get_arg_type(m_options[lk.opt]) = "optional"
           /\ calls' = Append(calls,
                 IF match2_matched(arg) THEN execute1(lk.opt, match2(arg), it)
                                        ELSE execute0(lk.opt, it))
    /\ cls' = [cls EXCEPT ![it] = "long"]
    /\ it' = it + 1
    /\ UNCHANGED <<config, cit, pc, err>>

\* RunLongRequired that does not take a token that starts with a hyphen
RunLongRequired_NoHyphenValue ==
    /\ InLong
    /\ LET lk == long_lookup(match1(arg))
       IN  /\ lk.sel = "option"
           /\ get_arg_type(m_options[lk.opt]) = "required"
           /\ IF match2_matched(arg)
                 THEN /\ calls' = Append(calls, execute1(lk.opt, match2(arg), it))
                      /\ cls' = [cls EXCEPT ![it] = "long"]
                      /\ it' = it + 1
                      /\ UNCHANGED <<pc, err>>
              ELSE IF it + 1 = last \/ (argv[it + 1] # <<>> /\ argv[it + 1][1] = "-")
                 THEN /\ Throw("argument required: ", <<"-","-">> \o match1(arg))
                      /\ cls' = [cls EXCEPT ![it] = "long"]
                      /\ it' = it + 1
                      /\ UNCHANGED calls
                 ELSE /\ calls' = Append(calls, execute1(lk.opt, argv[it + 1], it))
                      /\ cls' = [cls EXCEPT ![it] = "long", ![it + 1] = "value"]
                      /\ it' = it + 2
                      /\ UNCHANGED <<pc, err>>
    /\ UNCHANGED <<config, cit>>


\* lines 332-341: n == arg_type::required
RunLongRequired ==
    /\ InLong
    /\ LET lk == long_lookup(match1(arg))
       IN  /\ lk.sel = "option"
           /\ get_arg_type(m_options[lk.opt]) = "required"
           /\ IF match2_matched(arg)
                 THEN /\ calls' = Append(calls, execute1(lk.opt, match2(arg), it))
                      /\ cls' = [cls EXCEPT ![it] = "long"]
                      /\ it' = it + 1
                      /\ UNCHANGED <<pc, err>>
              ELSE IF it + 1 = last
                 THEN /\ Throw("argument required: ", <<"-","-">> \o match1(arg))
                      /\ cls' = [cls EXCEPT ![it] = "long"]
                      /\ it' = it + 1
                      /\ UNCHANGED calls
                 ELSE /\ calls' = Append(calls, execute1(lk.opt, argv[it + 1], it))
                      /\ cls' = [cls EXCEPT ![it] = "long", ![it + 1] = "value"]
                      /\ it' = it + 2
                      /\ UNCHANGED <<pc, err>>
    /\ UNCHANGED <<config, cit>>

\* lines 342-344: the token is a short-option cluster, cit = match[1].first
RunShort ==
    /\ pc = "scan" /\ it # last
    /\ arg # <<"-","-">>
    /\ ~regex_long(arg)
    /\ regex_short(arg)
    /\ pc' = "cluster"
    /\ cit' = 2
    /\ cls' = [cls EXCEPT ![it] = "short"]
    /\ UNCHANGED <<config, it, calls, err>>

\* lines 352-355: no option has the short name; `continue` resumes the
\* for loop over the cluster at its ++cit
ShortUnrecognized ==
    /\ InShort
    /\ short_lookup(arg[cit]).sel = "unrec"
    /\ calls' = Append(calls, unrec_option_handler(<<"-">> \o Suffix(arg, cit), it))
    /\ IF unrec_default
          THEN Throw("unrecognized option: ", <<"-">> \o Suffix(arg, cit)) /\ UNCHANGED cit
          ELSE cit' = cit + 1 /\ UNCHANGED <<pc, err>>
    /\ UNCHANGED <<config, it, cls>>

\* lines 356-358: throw error("ambiguous option: -" + name)
ShortAmbiguous ==
    /\ InShort
    /\ short_lookup(arg[cit]).sel = "ambiguous"
    /\ Throw("ambiguous option: ", <<"-", arg[cit]>>)
    /\ UNCHANGED <<config, it, cit, calls, cls>>

\* ShortNone with a `break` after execute()
ShortNone_Break ==
    /\ InShort
    /\ LET lk == short_lookup(arg[cit])
       IN  /\ lk.sel = "option"
           /\ get_arg_type(m_options[lk.opt]) = "none"
           /\ calls' = Append(calls, execute0(lk.opt, it))
    /\ cit' = 0
    /\ it' = it + 1
    /\ pc' = "scan"
    /\ UNCHANGED <<config, err, cls>>

\* lines 360-361: n == arg_type::none
ShortNone ==
    /\ InShort
    /\ LET lk == short_lookup(arg[cit])
       IN  /\ lk.sel = "option"
           /\ get_arg_type(m_options[lk.opt]) = "none"
           /\ calls' = Append(calls, execute0(lk.opt, it))
    /\ cit' = cit + 1
    /\ UNCHANGED <<config, it, pc, err, cls>>

\* ShortOptional that takes the next token when no characters remain
ShortOptional_TakesNext ==
    /\ InShort
    /\ LET lk == short_lookup(arg[cit])
       IN  /\ lk.sel = "option"
           /\ get_arg_type(m_options[lk.opt]) = "optional"
           /\ IF cit + 1 = Len(arg) + 1
              THEN IF it + 1 = last
                   THEN /\ calls' = Append(calls, execute0(lk.opt, it))
                        /\ it' = it + 1
                        /\ cls' = cls
                   ELSE /\ calls' = Append(calls, execute1(lk.opt, argv[it + 1], it))
                        /\ it' = it + 2
                        /\ cls' = [cls EXCEPT ![it + 1] = "value"]
              ELSE /\ calls' = Append(calls, execute1(lk.opt, Suffix(arg, cit + 1), it))
                   /\ it' = it + 1
                   /\ cls' = cls
    /\ cit' = 0
    /\ pc' = "scan"
    /\ UNCHANGED <<config, err>>

\* lines 362-365: n == arg_type::optional
ShortOptional ==
    /\ InShort
    /\ LET lk == short_lookup(arg[cit])
       IN  /\ lk.sel = "option"
           /\ get_arg_type(m_options[lk.opt]) = "optional"
           /\ calls' = Append(calls,
                 IF cit + 1 = Len(arg) + 1 THEN execute0(lk.opt, it)
                 ELSE execute1(lk.opt, Suffix(arg, cit + 1), it))
    /\ cit' = 0
    /\ it' = it + 1
    /\ pc' = "scan"
    /\ UNCHANGED <<config, err, cls>>

\* ShortRequired that calls execute() when no token is left to take
ShortRequired_ExecuteAtEnd ==
    /\ InShort
    /\ LET lk == short_lookup(arg[cit])
       IN  /\ lk.sel = "option"
           /\ get_arg_type(m_options[lk.opt]) = "required"
           /\ IF cit + 1 # Len(arg) + 1
                 THEN /\ calls' = Append(calls, execute1(lk.opt, Suffix(arg, cit + 1), it))
                      /\ it' = it + 1
                      /\ UNCHANGED cls
              ELSE IF it + 1 = last
                 THEN /\ calls' = Append(calls, execute0(lk.opt, it))
                      /\ it' = it + 1
                      /\ UNCHANGED cls
                 ELSE /\ calls' = Append(calls, execute1(lk.opt, argv[it + 1], it))
                      /\ cls' = [cls EXCEPT ![it + 1] = "value"]
                      /\ it' = it + 2
    /\ cit' = 0
    /\ pc' = "scan"
    /\ UNCHANGED <<config, err>>


\* ShortRequired that never reads the next token
ShortRequired_NeverNext ==
    /\ InShort
    /\ LET lk == short_lookup(arg[cit])
       IN  /\ lk.sel = "option"
           /\ get_arg_type(m_options[lk.opt]) = "required"
           /\ IF cit + 1 # Len(arg) + 1
                 THEN /\ calls' = Append(calls, execute1(lk.opt, Suffix(arg, cit + 1), it))
                      /\ cit' = 0
                      /\ it' = it + 1
                      /\ pc' = "scan"
                      /\ UNCHANGED <<err, cls>>
                 ELSE /\ Throw("argument required: ", <<"-", arg[cit]>>)
                      /\ cit' = cit + 1
                      /\ it' = it + 1
                      /\ UNCHANGED <<calls, cls>>
    /\ UNCHANGED config

\* lines 366-376: n == arg_type::required
ShortRequired ==
    /\ InShort
    /\ LET lk == short_lookup(arg[cit])
       IN  /\ lk.sel = "option"
           /\ get_arg_type(m_options[lk.opt]) = "required"
           /\ IF cit + 1 # Len(arg) + 1
                 THEN /\ calls' = Append(calls, execute1(lk.opt, Suffix(arg, cit + 1), it))
                      /\ cit' = 0
                      /\ it' = it + 1
                      /\ pc' = "scan"
                      /\ UNCHANGED <<err, cls>>
              ELSE IF it + 1 = last
                 THEN /\ Throw("argument required: ", <<"-", arg[cit]>>)
                      /\ cit' = cit + 1
                      /\ it' = it + 1
                      /\ UNCHANGED <<calls, cls>>
                 ELSE /\ calls' = Append(calls, execute1(lk.opt, argv[it + 1], it))
                      /\ cls' = [cls EXCEPT ![it + 1] = "value"]
                      /\ cit' = 0
                      /\ it' = it + 2
                      /\ pc' = "scan"
                      /\ UNCHANGED err
    /\ UNCHANGED config

\* ShortEnd that leaves the cursor on the token of the cluster
ShortEnd_SameToken ==
    /\ pc = "cluster"
    /\ cit = Len(arg) + 1
    /\ cit' = 0
    /\ pc' = "scan"
    /\ UNCHANGED <<config, it, calls, err, cls>>


\* line 344: cit == clast, the cluster is exhausted
ShortEnd ==
    /\ pc = "cluster"
    /\ cit = Len(arg) + 1
    /\ cit' = 0
    /\ it' = it + 1
    /\ pc' = "scan"
    /\ UNCHANGED <<config, calls, err, cls>>

\* RunPosixRest that takes a later `--` as a separator and does not hand it over
RunPosixRest_DropSeparator ==
    /\ pc = "scan" /\ it # last
    /\ arg # <<"-","-">>
    /\ ~regex_long(arg)
    /\ ~regex_short(arg)
    /\ m_flag = "posixly_correct"
    /\ LET notseparator(c) == c.arg # << <<"-","-">> >>
       IN  calls' = calls \o SelectSeq(rest_to_non_option(argv, it), notseparator)
    /\ cls' = [i \in 1..Len(argv) |->
                 IF i = it THEN "operand" ELSE IF i > it THEN "rest" ELSE cls[i]]
    /\ it' = last
    /\ pc' = "done"
    /\ UNCHANGED <<config, cit, err>>


\* RunPosixRest that hands over the remaining tokens from the last to the
\* current one
RunPosixRest_Backwards ==
    /\ pc = "scan" /\ it # last
    /\ arg # <<"-","-">>
    /\ ~regex_long(arg)
    /\ ~regex_short(arg)
    /\ m_flag = "posixly_correct"
    /\ calls' = calls \o [j \in 1..(Len(argv) - it + 1) |->
                            non_option_handler(argv[Len(argv) - j + 1], Len(argv) - j + 1)]
    /\ cls' = [i \in 1..Len(argv) |->
                 IF i = it THEN "operand" ELSE IF i > it THEN "rest" ELSE cls[i]]
    /\ it' = last
    /\ pc' = "done"
    /\ UNCHANGED <<config, cit, err>>


\* RunPosixRest that hands over only the current token
RunPosixRest_OneToken ==
    /\ pc = "scan" /\ it # last
    /\ arg # <<"-","-">>
    /\ ~regex_long(arg)
    /\ ~regex_short(arg)
    /\ m_flag = "posixly_correct"
    /\ calls' = Append(calls, non_option_handler(arg, it))
    /\ cls' = [cls EXCEPT ![it] = "operand"]
    /\ it' = it + 1
    /\ UNCHANGED <<config, cit, pc, err>>

\* lines 378-383: m_flag == parse_flag::posixly_correct
RunPosixRest ==
    /\ pc = "scan" /\ it # last
    /\ arg # <<"-","-">>
    /\ ~regex_long(arg)
    /\ ~regex_short(arg)
    /\ m_flag = "posixly_correct"
    /\ calls' = calls \o [j \in 1..(Len(argv) - it + 1) |->
                            non_option_handler(argv[it + j - 1], it + j - 1)]
    /\ cls' = [i \in 1..Len(argv) |->
                 IF i = it THEN "operand" ELSE IF i > it THEN "rest" ELSE cls[i]]
    /\ it' = last
    /\ pc' = "done"
    /\ UNCHANGED <<config, cit, err>>

\* RunNonOption that hands over the rest of the tokens and returns
RunNonOption_StopScanning ==
    /\ pc = "scan" /\ it # last
    /\ arg # <<"-","-">>
    /\ ~regex_long(arg)
    /\ ~regex_short(arg)
    /\ m_flag # "posixly_correct"
    /\ calls' = calls \o [j \in 1..(Len(argv) - it + 1) |->
                            non_option_handler(argv[it + j - 1], it + j - 1)]
    /\ cls' = [i \in 1..Len(argv) |->
                 IF i = it THEN "operand" ELSE IF i > it THEN "rest" ELSE cls[i]]
    /\ it' = last
    /\ pc' = "done"
    /\ UNCHANGED <<config, cit, err>>

\* lines 384-387: non-option
RunNonOption ==
    /\ pc = "scan" /\ it # last
    /\ arg # <<"-","-">>
    /\ ~regex_long(arg)
    /\ ~regex_short(arg)
    /\ m_flag # "posixly_correct"
    /\ calls' = Append(calls, non_option_handler(arg, it))
    /\ cls' = [cls EXCEPT ![it] = "operand"]
    /\ it' = it + 1
    /\ UNCHANGED <<config, cit, pc, err>>

\* line 286: it == last, run returns
RunReturn ==
    /\ pc = "scan"
    /\ it = last
    /\ pc' = "done"
    /\ UNCHANGED <<config, it, cit, calls, err, cls>>

Next ==
    \/ RunSeparator
    \/ RunLongUnrecognized
    \/ RunLongAmbiguous
    \/ RunLongNone
    \/ RunLongOptional
    \/ RunLongRequired
    \/ RunShort
    \/ ShortUnrecognized
    \/ ShortAmbiguous
    \/ ShortNone
    \/ ShortOptional
    \/ ShortRequired
    \/ ShortEnd
    \/ RunPosixRest
    \/ RunNonOption
    \/ RunReturn

Spec == Init /\ [][Next]_vars

\* Init with the shorter ranges over which termination is analysed
InitFair ==
    /\ \E p \in Parsers :
          /\ m_options = p.options
          /\ argv \in SeqsUpTo(p.tokens, MaxFairArgs)
    /\ m_flag \in { "none", "posixly_correct" }
    /\ unrec_default \in BOOLEAN
    /\ it = 1
    /\ cit = 0
    /\ pc = "scan"
    /\ calls = <<>>
    /\ err = NoError
    /\ cls = [i \in 1..Len(argv) |-> "unseen"]
    /\ header = <<>>
    /\ helps = <<>>
    /\ col0 = 0
    /\ col1 = 0
    /\ ss = <<>>
    /\ help_it = 0
    /\ help_pc = "idle"

\* run is one sequential function and the handlers it calls return: whenever
\* a statement of run is left to execute, it is executed
FairSpec == InitFair /\ [][Next]_vars /\ WF_vars(Next)

----------------------------------------------------------------------------
(* basic_option::get_help and basic_parser::get_help *)

\* the options whose help is taken: m_arg_name and m_description are the
\* fields of basic_option that run never reads
HelpOptions ==
    { [m_short_names |-> <<"v">>,
       m_long_names  |-> << <<"a","b">> >>,
       m_arg_type    |-> "none",
       m_arg_name    |-> <<>>,
       m_description |-> <<"x">>],
      [m_short_names |-> <<"a","b">>,
       m_long_names  |-> <<>>,
       m_arg_type    |-> "required",
       m_arg_name    |-> <<"N">>,
       m_description |-> <<"x","\n","y","z">>],
      [m_short_names |-> <<>>,
       m_long_names  |-> << <<"c">>, <<"d","e">> >>,
       m_arg_type    |-> "optional",
       m_arg_name    |-> <<"N">>,
       m_description |-> <<>>],
      [m_short_names |-> <<"c">>,
       m_long_names  |-> << <<"c">> >>,
       m_arg_type    |-> "optional",
       m_arg_name    |-> <<"N","M">>,
       m_description |-> <<"x","\n","\n","y","\n">>],
      [m_short_names |-> <<>>,
       m_long_names  |-> << <<"a","b","c">> >>,
       m_arg_type    |-> "required",
       m_arg_name    |-> <<"N">>,
       m_description |-> <<"\n","z">>] }

Headers == { <<>>, <<"U",":">> }

Max(a, b) == IF a > b THEN a ELSE b

Spaces(n) == [i \in 1..n |-> " "]

\* ss << std::left << std::setw(w) << s
setw_left(w, s) == s \o Spaces(Max(w - Len(s), 0))

\* lines 161-173: the loop over m_short_names from the i-th name on
RECURSIVE short_names_help(_, _)
short_names_help(opt, i) ==
    IF i > Len(opt.m_short_names) THEN <<>>
    ELSE (IF i = 1 THEN <<>> ELSE <<",">>)
         \o <<"-", opt.m_short_names[i]>>
         \o (IF opt.m_arg_type = "optional" THEN <<"[">> \o opt.m_arg_name \o <<"]">>
             ELSE IF opt.m_arg_type = "required" THEN <<" ">> \o opt.m_arg_name
             ELSE <<>>)
         \o short_names_help(opt, i + 1)

\* lines 176-187: the loop over m_long_names from the i-th name on
RECURSIVE long_names_help(_, _)
long_names_help(opt, i) ==
    IF i > Len(opt.m_long_names) THEN <<>>
    ELSE (IF i = 1 THEN <<>> ELSE <<",">>)
         \o <<"-","-">> \o opt.m_long_names[i]
         \o (IF opt.m_arg_type = "optional" THEN <<"[","=">> \o opt.m_arg_name \o <<"]">>
             ELSE IF opt.m_arg_type = "required" THEN <<"=">> \o opt.m_arg_name
             ELSE <<>>)
         \o long_names_help(opt, i + 1)

\* basic_option::get_help
get_help(opt) == << short_names_help(opt, 1), long_names_help(opt, 1), opt.m_description >>

\* index of the first line feed of s, 0 when there is none
RECURSIVE FirstLF(_, _)
FirstLF(s, i) ==
    IF i > Len(s) THEN 0
    ELSE IF s[i] = "\n" THEN i
    ELSE FirstLF(s, i + 1)

\* the lines that while (std::getline(desc, ln)) reads from the stream s:
\* none from the empty stream, and none after a final line feed
RECURSIVE getlines(_)
getlines(s) ==
    IF s = <<>> THEN <<>>
    ELSE LET e == FirstLF(s, 1)
         IN  IF e = 0 THEN << s >>
             ELSE << SubSeq(s, 1, e - 1) >> \o getlines(Suffix(s, e + 1))

\* lines 421-427: what the while loop writes for the lines lns from the i-th on
RECURSIVE write_lines(_, _, _)
write_lines(lns, i, w) ==
    IF i > Len(lns) THEN <<>>
    ELSE (IF i = 1 THEN <<>> ELSE <<"\n">> \o setw_left(w, <<>>))
         \o lns[i]
         \o write_lines(lns, i + 1, w)

InitHelp ==
    /\ m_options \in SeqsUpTo(HelpOptions, MaxOptions)
    /\ header \in Headers
    /\ helps = <<>>
    /\ col0 = 0
    /\ col1 = 0
    /\ ss = <<>>
    /\ help_it = 0
    /\ help_pc = "collect"
    /\ m_flag = "none"
    /\ unrec_default = TRUE
    /\ argv = <<>>
    /\ it = 1
    /\ cit = 0
    /\ pc = "scan"
    /\ calls = <<>>
    /\ err = NoError
    /\ cls = <<>>

\* lines 397-402: one turn of the loop over m_options
GetHelpOption ==
    /\ help_pc = "collect"
    /\ Len(helps) < Len(m_options)
    /\ LET help == get_help(m_options[Len(helps) + 1])
       IN  /\ col0' = Max(col0, Len(help[1]))
           /\ col1' = Max(col1, Len(help[2]))
           /\ helps' = Append(helps, help)
    /\ UNCHANGED <<run_vars, header, ss, help_it, help_pc>>

\* GetHelpHeader without ++col0 and ++col1
GetHelpHeader_NoIncrement ==
    /\ help_pc = "collect"
    /\ Len(helps) = Len(m_options)
    /\ ss' = header \o <<"\n">>
    /\ help_it' = 1
    /\ help_pc' = "write"
    /\ UNCHANGED <<run_vars, header, helps, col0, col1>>

\* lines 403-412: ++col0; ++col1; ss << header << '\n'
GetHelpHeader ==
    /\ help_pc = "collect"
    /\ Len(helps) = Len(m_options)
    /\ col0' = col0 + 1
    /\ col1' = col1 + 1
    /\ ss' = header \o <<"\n">>
    /\ help_it' = 1
    /\ help_pc' = "write"
    /\ UNCHANGED <<run_vars, header, helps>>

\* GetHelpBlock that writes an empty line before every block but the first
GetHelpBlock_BlankLine ==
    /\ help_pc = "write"
    /\ help_it <= Len(helps)
    /\ LET help == helps[help_it]
       IN  ss' = ss \o (IF help_it = 1 THEN <<>> ELSE <<"\n","\n">>)
                    \o setw_left(col0, help[1])
                    \o setw_left(col1, help[2])
                    \o write_lines(getlines(help[3]), 1, col0 + col1)
    /\ help_it' = help_it + 1
    /\ UNCHANGED <<run_vars, header, helps, col0, col1, help_pc>>


\* lines 413-428: one turn of the loop over helps
GetHelpBlock ==
    /\ help_pc = "write"
    /\ help_it <= Len(helps)
    /\ LET help == helps[help_it]
       IN  ss' = ss \o (IF help_it = 1 THEN <<>> ELSE <<"\n">>)
                    \o setw_left(col0, help[1])
                    \o setw_left(col1, help[2])
                    \o write_lines(getlines(help[3]), 1, col0 + col1)
    /\ help_it' = help_it + 1
    /\ UNCHANGED <<run_vars, header, helps, col0, col1, help_pc>>

\* line 429: return ss.str()
GetHelpReturn ==
    /\ help_pc = "write"
    /\ help_it > Len(helps)
    /\ help_pc' = "returned"
    /\ UNCHANGED <<run_vars, header, helps, col0, col1, ss, help_it>>

NextHelp ==
    \/ GetHelpOption
    \/ GetHelpHeader
    \/ GetHelpBlock
    \/ GetHelpReturn

SpecHelp == InitHelp /\ [][NextHelp]_vars

----------------------------------------------------------------------------
(* Vocabulary of the properties *)

Returned == pc = "done"

Failed == pc = "failed"

TokenIndices == 1..Len(argv)

\* the handler invocations made while token i was the one being classified
CallsFor(i) ==
    LET made(c) == c.tok = i
    IN  SelectSeq(calls, made)

\* the handler invocations made for the tokens after token i
CallsAfter(i) ==
    LET made(c) == c.tok > i
    IN  SelectSeq(calls, made)

\* the non-option handler invoked once for each of the tokens i+1 .. last, in order
OperandsAfter(i) ==
    [j \in 1..(Len(argv) - i) |->
        [h |-> "non_option", opt |-> 0, arg |-> <<argv[i + j]>>, tok |-> i + j]]

\* token i was read by the loop of run as the token to classify
Reached(i) == cls[i] \in { "separator", "long", "short", "operand" }

\* token i has been dealt with completely
Processed(i) == Reached(i) /\ (it > i \/ pc \in { "done", "failed" })

\* the token at which run threw
FailTok ==
    CHOOSE i \in TokenIndices :
        cls[i] # "unseen" /\ \A j \in (i + 1)..Len(argv) : cls[j] = "unseen"

StartsWithHyphen(t) == Len(t) >= 1 /\ t[1] = "-"

----------------------------------------------------------------------------
(* C1 *)

\* C1 as stated: when run returns, every token after the first token equal
\* to `--` went to the non-option handler, in order, and to no other handler.
C1_AfterFirstSeparatorToken ==
    Returned =>
        \A i \in TokenIndices :
            (argv[i] = <<"-","-">> /\ \A j \in 1..(i - 1) : argv[j] # <<"-","-">>)
                => CallsAfter(i) = OperandsAfter(i)

\* C1 amended: when run returns, every token after the first token equal to
\* `--` that was not consumed as the value of a Required Option went to the
\* non-option handler, in the original order, and to no other handler.
C1_AfterFirstUnconsumedSeparator ==
    Returned =>
        \A i \in TokenIndices :
            ( /\ argv[i] = <<"-","-">>
              /\ cls[i] # "value"
              /\ \A j \in 1..(i - 1) : argv[j] = <<"-","-">> => cls[j] = "value" )
                => CallsAfter(i) = OperandsAfter(i)

\* a run that returned after `--` acted as the separator in front of a token
\* that starts with a hyphen
C1_Witness ==
    /\ Returned
    /\ \E i \in TokenIndices :
          /\ cls[i] = "separator"
          /\ i < Len(argv)
          /\ StartsWithHyphen(argv[i + 1])
          /\ CallsFor(i + 1) = << [h |-> "non_option", opt |-> 0,
                                   arg |-> <<argv[i + 1]>>, tok |-> i + 1] >>

----------------------------------------------------------------------------
(* Long names as the specification describes them *)

OptionIndices == 1..Len(m_options)

LongNames(k) ==
    { m_options[k].m_long_names[j] : j \in 1..Len(m_options[k].m_long_names) }

IsPrefixOf(p, n) == Len(p) <= Len(n) /\ SubSeq(n, 1, Len(p)) = p

IsProperPrefixOf(p, n) == Len(p) < Len(n) /\ IsPrefixOf(p, n)

\* the Options that declare the name itself
ExactOwners(name) == { k \in OptionIndices : name \in LongNames(k) }

\* the Options that declare a name of which the non-empty name is a proper prefix
PrefixOwners(name) ==
    { k \in OptionIndices :
        name # <<>> /\ \E n \in LongNames(k) : IsProperPrefixOf(name, n) }

\* the name selects Option k: by exact match, or else by unique partial match
SelectsLong(name, k) ==
    \/ ExactOwners(name) = { k }
    \/ ExactOwners(name) = {} /\ PrefixOwners(name) = { k }

\* positions of the `=` characters of a token that starts with two hyphens
EqPositions(t) == { i \in 3..Len(t) : t[i] = "=" }

HasValue(t) == EqPositions(t) # {}

FirstEqAt(t) == CHOOSE i \in EqPositions(t) : \A j \in EqPositions(t) : i <= j

\* NAME of `--NAME` and of `--NAME=VALUE`
NameOf(t) ==
    IF HasValue(t) THEN SubSeq(t, 3, FirstEqAt(t) - 1) ELSE SubSeq(t, 3, Len(t))

\* VALUE of `--NAME=VALUE`: everything after the first `=`
ValueOf(t) == SubSeq(t, FirstEqAt(t) + 1, Len(t))

OptionCall(k, a, i) == [h |-> "option", opt |-> k, arg |-> a, tok |-> i]

----------------------------------------------------------------------------
(* C2 *)

\* C2: a long-option token `--NAME=VALUE` whose NAME selects one Option of
\* arity Optional or Required makes run invoke that Option's handler exactly
\* once, in the one-argument form, with everything after the first `=` of the
\* token, and the following token is not consumed as a value.
C2_AttachedLongValue ==
    \A i \in TokenIndices : \A k \in OptionIndices :
        ( /\ cls[i] = "long"
          /\ HasValue(argv[i])
          /\ SelectsLong(NameOf(argv[i]), k)
          /\ m_options[k].m_arg_type \in { "optional", "required" } )
            => /\ CallsFor(i) = << OptionCall(k, <<ValueOf(argv[i])>>, i) >>
               /\ i < Len(argv) => cls[i + 1] # "value"
               /\ Failed => FailTok # i

\* a run that returned after dispatching one `--NAME=` with the empty value
\* and one `--NAME=VALUE` whose VALUE holds a `=`, with a token following
C2_Witness ==
    /\ Returned
    /\ \E i, j \in TokenIndices : \E k, l \in OptionIndices :
          /\ cls[i] = "long" /\ HasValue(argv[i]) /\ ValueOf(argv[i]) = <<>>
          /\ CallsFor(i) = << OptionCall(k, << <<>> >>, i) >>
          /\ m_options[k].m_arg_type = "optional"
          /\ cls[j] = "long" /\ HasValue(argv[j])
          /\ \E q \in 1..Len(ValueOf(argv[j])) : ValueOf(argv[j])[q] = "="
          /\ CallsFor(j) = << OptionCall(l, <<ValueOf(argv[j])>>, j) >>
          /\ m_options[l].m_arg_type = "required"
          /\ j < Len(argv) /\ Reached(j + 1)

----------------------------------------------------------------------------
(* C3 *)

\* the long names declared elsewhere than as name j of Option k
OtherDeclarations(k, j) ==
    UNION { { m_options[k2].m_long_names[j2] :
                j2 \in { j3 \in 1..Len(m_options[k2].m_long_names) : <<k2, j3>> # <<k, j>> } } :
            k2 \in OptionIndices }

\* C3: when NAME is a non-empty proper prefix of a declared long name L1 and
\* a prefix of no other declared long name, the token `--NAME` or
\* `--NAME=VALUE` selects the Option that declares L1: the only handler
\* invoked for the token is that Option's, it is invoked unless the token
\* fails on its argument, and run raises neither AmbiguousOption nor
\* UnrecognizedOption for it.
C3_UniquePrefixSelects ==
    \A i \in TokenIndices : \A k \in OptionIndices :
        \A j \in 1..Len(m_options[k].m_long_names) :
            ( /\ cls[i] = "long"
              /\ NameOf(argv[i]) # <<>>
              /\ IsProperPrefixOf(NameOf(argv[i]), m_options[k].m_long_names[j])
              /\ \A n \in OtherDeclarations(k, j) : ~IsPrefixOf(NameOf(argv[i]), n) )
                => /\ \A c \in 1..Len(CallsFor(i)) :
                        CallsFor(i)[c].h = "option" /\ CallsFor(i)[c].opt = k
                   /\ IF Failed /\ FailTok = i
                         THEN /\ err.msg \in { "argument not allowed: ", "argument required: " }
                              /\ CallsFor(i) = <<>>
                         ELSE Len(CallsFor(i)) = 1

\* a run that returned after a proper prefix without value and a proper
\* prefix with `=VALUE` each reached the handler of the one Option that
\* declares the name they abbreviate
C3_Witness ==
    /\ Returned
    /\ \E i, j \in TokenIndices : \E k, l \in OptionIndices :
          /\ cls[i] = "long" /\ ~HasValue(argv[i])
          /\ ExactOwners(NameOf(argv[i])) = {} /\ PrefixOwners(NameOf(argv[i])) = { k }
          /\ CallsFor(i) = << OptionCall(k, <<>>, i) >>
          /\ cls[j] = "long" /\ HasValue(argv[j])
          /\ ExactOwners(NameOf(argv[j])) = {} /\ PrefixOwners(NameOf(argv[j])) = { l }
          /\ CallsFor(j) = << OptionCall(l, <<ValueOf(argv[j])>>, j) >>

----------------------------------------------------------------------------
(* C4 *)

DeclaredLongNames == UNION { LongNames(k) : k \in OptionIndices }

\* C4 as stated: a long-option token whose NAME equals no declared long name
\* and is a prefix of two or more distinct declared long names makes run raise
\* AmbiguousOption and invoke no handler for the token.
C4_PrefixOfTwoNames ==
    \A i \in TokenIndices :
        ( /\ cls[i] = "long"
          /\ NameOf(argv[i]) \notin DeclaredLongNames
          /\ Cardinality({ n \in DeclaredLongNames : IsPrefixOf(NameOf(argv[i]), n) }) >= 2 )
            => /\ Failed /\ FailTok = i
               /\ err = [msg |-> "ambiguous option: ", what |-> <<"-","-">> \o NameOf(argv[i])]
               /\ CallsFor(i) = <<>>

\* C4 amended: a long-option token whose NAME equals no declared long name
\* and is a prefix of long names declared by two or more distinct Options makes
\* run raise AmbiguousOption and invoke no handler for the token.
C4_PrefixOfTwoOptions ==
    \A i \in TokenIndices :
        ( /\ cls[i] = "long"
          /\ NameOf(argv[i]) \notin DeclaredLongNames
          /\ Cardinality({ k \in OptionIndices :
                             \E n \in LongNames(k) : IsPrefixOf(NameOf(argv[i]), n) }) >= 2 )
            => /\ Failed /\ FailTok = i
               /\ err = [msg |-> "ambiguous option: ", what |-> <<"-","-">> \o NameOf(argv[i])]
               /\ CallsFor(i) = <<>>

\* a run that threw AmbiguousOption on a non-empty prefix shared by the long
\* names of two Options, after handlers had been invoked for earlier tokens
C4_Witness ==
    /\ Failed
    /\ err.msg = "ambiguous option: "
    /\ cls[FailTok] = "long"
    /\ NameOf(argv[FailTok]) # <<>>
    /\ Cardinality(PrefixOwners(NameOf(argv[FailTok]))) >= 2
    /\ ExactOwners(NameOf(argv[FailTok])) = {}
    /\ FailTok > 1
    /\ calls # <<>>

----------------------------------------------------------------------------
(* C5 *)

\* the Options that declare the short name c
ShortOwners(c) ==
    { k \in OptionIndices :
        \E j \in 1..Len(m_options[k].m_short_names) : m_options[k].m_short_names[j] = c }

\* c is a short name of exactly one Option, and that Option has arity a
UniquelyShort(c, a) ==
    \E k \in OptionIndices : ShortOwners(c) = { k } /\ m_options[k].m_arg_type = a

ShortOwner(c) == CHOOSE k \in ShortOwners(c) : TRUE

\* the characters of token t at positions 2 .. q-1 each name one None Option
LeadingNones(t, q) == \A r \in 2..(q - 1) : UniquelyShort(t[r], "none")

\* the zero-argument calls of the Options named at positions 2 .. q-1 of token i
NoneCalls(i, q) == [r \in 1..(q - 2) |-> OptionCall(ShortOwner(argv[i][r + 1]), <<>>, i)]

\* C5: in a short-option cluster the characters are taken left to right; the
\* leading characters that each name one None Option invoke those Options'
\* zero-argument handlers, once each and in order; the first character that
\* names one Required Option invokes its handler with the remaining characters
\* of the token when there are any, otherwise with the next token, and ends the
\* cluster.
C5_ShortCluster ==
    \A i \in TokenIndices :
        /\ ( cls[i] = "short" /\ pc = "cluster" /\ it = i /\ LeadingNones(argv[i], cit) )
              => CallsFor(i) = NoneCalls(i, cit)
        /\ \A q \in 2..Len(argv[i]) :
              ( /\ cls[i] = "short"
                /\ Processed(i)
                /\ LeadingNones(argv[i], q)
                /\ UniquelyShort(argv[i][q], "required")
                /\ q < Len(argv[i]) \/ i < Len(argv) )
                  => /\ CallsFor(i) =
                          Append(NoneCalls(i, q),
                                 OptionCall(ShortOwner(argv[i][q]),
                                            << IF q < Len(argv[i])
                                                  THEN SubSeq(argv[i], q + 1, Len(argv[i]))
                                                  ELSE argv[i + 1] >>,
                                            i))
                     /\ i < Len(argv) => (cls[i + 1] = "value" <=> q = Len(argv[i]))

\* a run that returned after `-abd` gave a() then b("d") and after `-ab`
\* followed by the token `d` gave a() then b("d")
C5_Witness ==
    /\ Returned
    /\ \E i, j \in TokenIndices :
          /\ argv[i] = <<"-","a","b","d">>
          /\ CallsFor(i) = << OptionCall(1, <<>>, i), OptionCall(2, << <<"d">> >>, i) >>
          /\ argv[j] = <<"-","a","b">>
          /\ j < Len(argv)
          /\ argv[j + 1] = <<"d">>
          /\ cls[j + 1] = "value"
          /\ CallsFor(j) = << OptionCall(1, <<>>, j), OptionCall(2, << <<"d">> >>, j) >>

----------------------------------------------------------------------------
(* C6 *)

\* the token is `--`, or has the shape of a long or of a short option
OptionShaped(t) == t = <<"-","-">> \/ regex_long(t) \/ regex_short(t)

\* the handler invocations made for token i and the tokens after it
CallsFrom(i) ==
    LET made(c) == c.tok >= i
    IN  SelectSeq(calls, made)

OperandCall(i) == [h |-> "non_option", opt |-> 0, arg |-> <<argv[i]>>, tok |-> i]

\* C6: in posixly-correct mode the first token reached by the scan that is
\* not option-shaped ends the scan: it and every later token go to the
\* non-option handler, in order, and to no other handler.
C6_PosixStopsAtFirstOperand ==
    m_flag = "posixly_correct" =>
        \A i \in TokenIndices :
            ( Reached(i) /\ ~OptionShaped(argv[i]) )
                => /\ Returned
                   /\ CallsFrom(i) = [j \in 1..(Len(argv) - i + 1) |-> OperandCall(i + j - 1)]

\* a posixly-correct run that dispatched an option, then met an operand
\* that is followed by a cluster of declared short names
C6_Witness ==
    /\ m_flag = "posixly_correct"
    /\ Returned
    /\ \E i \in TokenIndices :
          /\ i > 1 /\ i < Len(argv)
          /\ cls[i - 1] \in { "long", "short" }
          /\ cls[i] = "operand"
          /\ regex_short(argv[i + 1])
          /\ ShortOwners(argv[i + 1][2]) # {}
          /\ CallsFor(i + 1) = << OperandCall(i + 1) >>

----------------------------------------------------------------------------
(* C7 *)

\* C7: in standard mode a token reached by the scan that is not
\* option-shaped goes to the non-option handler exactly once and the scan goes
\* on; a long- or short-option-shaped token after it, with no `--` in front and
\* not consumed as a value, is dispatched as an option.
C7_StandardInterleaves ==
    m_flag = "none" =>
        \A i \in TokenIndices :
            ( Reached(i) /\ ~OptionShaped(argv[i]) )
                => /\ CallsFor(i) = << OperandCall(i) >>
                   /\ ~(Failed /\ FailTok = i)
                   /\ i < Len(argv) => ((pc = "scan" /\ it = i + 1) \/ Reached(i + 1))
                   /\ Returned =>
                        \A j \in (i + 1)..Len(argv) :
                            ( /\ regex_long(argv[j]) \/ regex_short(argv[j])
                              /\ \A r \in 1..j : argv[r] # <<"-","-">>
                              /\ cls[j] # "value" )
                                => /\ cls[j] \in { "long", "short" }
                                   /\ CallsFor(j) # <<>>
                                   /\ \A c \in 1..Len(CallsFor(j)) :
                                        CallsFor(j)[c].h \in { "option", "unrec_option" }
                                   /\ \A k \in OptionIndices :
                                        ( \/ cls[j] = "long" /\ SelectsLong(NameOf(argv[j]), k)
                                          \/ cls[j] = "short" /\ ShortOwners(argv[j][2]) = { k } )
                                            => ( CallsFor(j)[1].h = "option"
                                                 /\ CallsFor(j)[1].opt = k )

\* a standard-mode run that returned after an option, an operand and
\* another option, in this order
C7_Witness ==
    /\ m_flag = "none"
    /\ Returned
    /\ \E i \in TokenIndices :
          /\ i > 1 /\ i < Len(argv)
          /\ cls[i - 1] \in { "long", "short" }
          /\ Len(CallsFor(i - 1)) = 1 /\ CallsFor(i - 1)[1].h = "option"
          /\ cls[i] = "operand"
          /\ CallsFor(i) = << OperandCall(i) >>
          /\ cls[i + 1] \in { "long", "short" }
          /\ Len(CallsFor(i + 1)) = 1 /\ CallsFor(i + 1)[1].h = "option"

----------------------------------------------------------------------------
(* C8 *)

\* C8: a long-option token whose NAME neither equals nor is a prefix of a
\* declared long name goes to the unrecognized-option handler, once and as the
\* whole token text, and to no option handler; the default handler then raises
\* UnrecognizedOption carrying the token, and after a handler that returns the
\* scan goes on with the next token.
C8_UnknownLongName ==
    \A i \in TokenIndices :
        ( /\ cls[i] = "long"
          /\ \A n \in DeclaredLongNames : ~IsPrefixOf(NameOf(argv[i]), n) )
            => /\ CallsFor(i) = << [h |-> "unrec_option", opt |-> 0,
                                    arg |-> <<argv[i]>>, tok |-> i] >>
               /\ unrec_default =>
                    /\ Failed /\ FailTok = i
                    /\ err = [msg |-> "unrecognized option: ", what |-> argv[i]]
               /\ ~unrec_default =>
                    /\ ~(Failed /\ FailTok = i)
                    /\ i < Len(argv) => ((pc = "scan" /\ it = i + 1) \/ Reached(i + 1))
                    /\ i = Len(argv) => \/ pc = "scan" /\ it = last
                                        \/ Returned

\* a run with a handler that returns: an unknown `--NAME=VALUE` was reported
\* and the option token after it was dispatched
C8_Witness ==
    /\ ~unrec_default
    /\ Returned
    /\ \E i \in TokenIndices :
          /\ cls[i] = "long" /\ HasValue(argv[i])
          /\ CallsFor(i) = << [h |-> "unrec_option", opt |-> 0,
                               arg |-> <<argv[i]>>, tok |-> i] >>
          /\ i < Len(argv)
          /\ cls[i + 1] \in { "long", "short" }
          /\ CallsFor(i + 1) # <<>> /\ CallsFor(i + 1)[1].h = "option"

----------------------------------------------------------------------------
(* C9 *)

\* C9: a long-option token `--NAME=VALUE`, VALUE possibly empty, whose NAME
\* selects a None Option by exact or by unique partial match makes run raise
\* ArgumentNotAllowed without invoking that Option's handler for the token.
C9_ValueForNoneOption ==
    \A i \in TokenIndices : \A k \in OptionIndices :
        ( /\ cls[i] = "long"
          /\ HasValue(argv[i])
          /\ SelectsLong(NameOf(argv[i]), k)
          /\ m_options[k].m_arg_type = "none" )
            => /\ Failed /\ FailTok = i
               /\ err = [msg |-> "argument not allowed: ",
                         what |-> <<"-","-">> \o NameOf(argv[i])]
               /\ CallsFor(i) = <<>>

\* a run that threw ArgumentNotAllowed on `--NAME=` with an abbreviated NAME
\* and the empty VALUE, after handlers had been invoked for earlier tokens
C9_Witness ==
    /\ Failed
    /\ err.msg = "argument not allowed: "
    /\ cls[FailTok] = "long"
    /\ ExactOwners(NameOf(argv[FailTok])) = {}
    /\ ValueOf(argv[FailTok]) = <<>>
    /\ FailTok > 1
    /\ calls # <<>>

----------------------------------------------------------------------------
(* C10 *)

\* C10: a Required Option selected without attached value, by a long token
\* without `=` or as the last character of a cluster, at the last token of the
\* input makes run raise ArgumentRequired without invoking that Option's
\* handler; ArgumentRequired is raised at no token that has a successor.
C10_ArgumentRequired ==
    /\ \A i \in TokenIndices : \A k \in OptionIndices :
          ( /\ cls[i] = "long"
            /\ ~HasValue(argv[i])
            /\ SelectsLong(NameOf(argv[i]), k)
            /\ m_options[k].m_arg_type = "required"
            /\ i = Len(argv) )
              => /\ Failed /\ FailTok = i
                 /\ err = [msg |-> "argument required: ",
                           what |-> <<"-","-">> \o NameOf(argv[i])]
                 /\ CallsFor(i) = <<>>
    /\ \A i \in TokenIndices :
          ( /\ cls[i] = "short"
            /\ Processed(i)
            /\ LeadingNones(argv[i], Len(argv[i]))
            /\ UniquelyShort(argv[i][Len(argv[i])], "required")
            /\ i = Len(argv) )
              => /\ Failed /\ FailTok = i
                 /\ err = [msg |-> "argument required: ",
                           what |-> <<"-", argv[i][Len(argv[i])]>>]
                 /\ CallsFor(i) = NoneCalls(i, Len(argv[i]))
    /\ (Failed /\ err.msg = "argument required: ") => FailTok = Len(argv)

\* a run in which a Required Option took the next token as its value and
\* which then threw ArgumentRequired at the last token, a cluster whose
\* earlier characters had been dispatched
C10_Witness ==
    /\ Failed
    /\ err.msg = "argument required: "
    /\ cls[FailTok] = "short"
    /\ CallsFor(FailTok) # <<>>
    /\ \E j \in TokenIndices : cls[j] = "value"

----------------------------------------------------------------------------
(* C11 *)

\* token i + 1, when there is one, was not taken as a value and is the token
\* the scan classifies next
ClassifiedOnItsOwn(i) ==
    i <= Len(argv) =>
        /\ cls[i] # "value"
        /\ \/ Reached(i)
           \/ pc = "scan" /\ it = i

\* C11: an Optional Option never consumes the following token: selected by a
\* long-option token its handler receives the attached VALUE when there is one
\* and is otherwise invoked in the zero-argument form; reached in a cluster it
\* receives the remaining characters of the token when there are any and is
\* otherwise invoked in the zero-argument form; in every case the next token
\* is classified on its own by the scan.
C11_OptionalNeverConsumes ==
    /\ \A i \in TokenIndices : \A k \in OptionIndices :
          ( /\ cls[i] = "long"
            /\ SelectsLong(NameOf(argv[i]), k)
            /\ m_options[k].m_arg_type = "optional" )
              => /\ CallsFor(i) =
                      << OptionCall(k,
                                    IF HasValue(argv[i]) THEN << ValueOf(argv[i]) >>
                                                         ELSE <<>>,
                                    i) >>
                 /\ ClassifiedOnItsOwn(i + 1)
    /\ \A i \in TokenIndices : \A q \in 2..Len(argv[i]) :
          ( /\ cls[i] = "short"
            /\ Processed(i)
            /\ LeadingNones(argv[i], q)
            /\ UniquelyShort(argv[i][q], "optional") )
              => /\ CallsFor(i) =
                      Append(NoneCalls(i, q),
                             OptionCall(ShortOwner(argv[i][q]),
                                        IF q < Len(argv[i])
                                           THEN << SubSeq(argv[i], q + 1, Len(argv[i])) >>
                                           ELSE <<>>,
                                        i))
                 /\ ClassifiedOnItsOwn(i + 1)

\* a run that returned after `--c`, `-c` and an operand, in some order with
\* the operand last: both options were invoked without an argument and the
\* operand went to the non-option handler
C11_Witness ==
    /\ Returned
    /\ Len(argv) = 3
    /\ \E i, j \in 1..2 :
          /\ argv[i] = <<"-","-","c">>
          /\ CallsFor(i) = << OptionCall(3, <<>>, i) >>
          /\ argv[j] = <<"-","c">>
          /\ CallsFor(j) = << OptionCall(3, <<>>, j) >>
    /\ argv[3] = <<"d">>
    /\ CallsFor(3) = << OperandCall(3) >>

----------------------------------------------------------------------------
(* C12 *)

\* the handler invocations made for the tokens before token i
CallsBefore(i) ==
    LET made(c) == c.tok < i
    IN  SelectSeq(calls, made)

\* C12: when run throws at a token, nothing more happens: no handler has
\* been invoked for a later token and no step of run is left to take; the
\* invocations made for the tokens before the failing one are exactly those
\* of a run over these preceding tokens alone, which returns normally.
C12_FailureStopsScan ==
    Failed =>
        LET before == run(m_options, m_flag, unrec_default, SubSeq(argv, 1, FailTok - 1))
        IN  /\ CallsAfter(FailTok) = <<>>
            /\ ~ ENABLED Next
            /\ before.err = NoError
            /\ CallsBefore(FailTok) = before.calls

\* a run that threw at a token in the middle of the range, after handlers had
\* been invoked for an earlier token and for the failing token itself
C12_Witness ==
    /\ Failed
    /\ 1 < FailTok
    /\ FailTok < Len(argv)
    /\ CallsBefore(FailTok) # <<>>
    /\ CallsFor(FailTok) # <<>>

----------------------------------------------------------------------------
(* C13 *)

ShortField(k) == get_help(m_options[k])[1]

LongField(k) == get_help(m_options[k])[2]

\* the largest of the lengths Len(field(k)), 0 without options
MaxWidth(field(_)) ==
    IF OptionIndices = {} THEN 0
    ELSE LET widths == { Len(field(k)) : k \in OptionIndices }
         IN  CHOOSE w \in widths : \A v \in widths : v <= w

Col0 == 1 + MaxWidth(ShortField)

Col1 == 1 + MaxWidth(LongField)

\* s followed by the spaces that bring it to width w
LeftJustified(s, w) == s \o [i \in 1..(w - Len(s)) |-> " "]

\* the positions that end a line of the description d: its line feeds, and the
\* position after its last character unless that character is a line feed
LineEnds(d) ==
    { i \in 1..Len(d) : d[i] = "\n" }
        \cup (IF d # <<>> /\ d[Len(d)] # "\n" THEN { Len(d) + 1 } ELSE {})

NthLineEnd(d, j) ==
    CHOOSE e \in LineEnds(d) : Cardinality({ x \in LineEnds(d) : x < e }) = j - 1

\* the lines of the description d
DescriptionLines(d) ==
    [j \in 1..Cardinality(LineEnds(d)) |->
        SubSeq(d, (IF j = 1 THEN 0 ELSE NthLineEnd(d, j - 1)) + 1, NthLineEnd(d, j) - 1)]

\* the lines of the block of option k
BlockLines(k) ==
    LET d == DescriptionLines(m_options[k].m_description)
    IN  << LeftJustified(ShortField(k), Col0) \o LeftJustified(LongField(k), Col1)
              \o (IF d = <<>> THEN <<>> ELSE d[1]) >>
        \o [j \in 1..(Len(d) - 1) |-> [i \in 1..(Col0 + Col1) |-> " "] \o d[j + 1]]

\* the lines of the blocks of the options k .. Len(m_options), in order
RECURSIVE BlocksFrom(_)
BlocksFrom(k) ==
    IF k > Len(m_options) THEN <<>> ELSE BlockLines(k) \o BlocksFrom(k + 1)

\* the lines lns from the i-th on, a line feed between two of them
RECURSIVE JoinedFrom(_, _)
JoinedFrom(lns, i) ==
    IF i > Len(lns) THEN <<>>
    ELSE lns[i] \o (IF i < Len(lns) THEN <<"\n">> ELSE <<>>) \o JoinedFrom(lns, i + 1)

\* C13: the string get_help returns is the header line followed by the
\* blocks of the options in declaration order; with col0 one more than the
\* widest short field and col1 one more than the widest long field, the first
\* line of a block is the short field left-justified to width col0, the long
\* field left-justified to width col1, then the first line of the
\* description, and every further line of the description is written on a
\* line of its own after exactly col0 + col1 spaces.
C13_HelpLayout ==
    help_pc = "returned" =>
        /\ col0 = Col0
        /\ col1 = Col1
        /\ ss = header \o <<"\n">> \o JoinedFrom(BlocksFrom(1), 1)

\* get_help returned the listing of two or more options whose short fields
\* differ in width, one of them with a description of several lines
C13_Witness ==
    /\ help_pc = "returned"
    /\ Len(m_options) >= 2
    /\ \E j, k \in OptionIndices :
          /\ Len(ShortField(j)) + 2 < Col0
          /\ Len(LongField(j)) + 2 < Col1
          /\ Len(DescriptionLines(m_options[k].m_description)) >= 2
          /\ Len(BlockLines(k)) >= 2

----------------------------------------------------------------------------
(* C14 *)

UnrecognizedCall(a, i) == [h |-> "unrec_option", opt |-> 0, arg |-> <<a>>, tok |-> i]

\* C14: when the characters of a cluster before position q each name one
\* None Option and the character at q is the short name of no Option, the
\* unrecognized-option handler is invoked once, with `-` followed by the
\* characters of the token from q to its end, after the handlers of the
\* leading characters, and no further handler is invoked for the token; when
\* the handler returns the scan goes on with the next token.
C14_UnrecognizedEndsCluster ==
    \A i \in TokenIndices : \A q \in 2..Len(argv[i]) :
        ( /\ cls[i] = "short"
          /\ Processed(i)
          /\ LeadingNones(argv[i], q)
          /\ ShortOwners(argv[i][q]) = {} )
            => /\ CallsFor(i) =
                    Append(NoneCalls(i, q),
                           UnrecognizedCall(<<"-">> \o SubSeq(argv[i], q, Len(argv[i])), i))
               /\ ~unrec_default => ClassifiedOnItsOwn(i + 1)

----------------------------------------------------------------------------
(* C15 *)

\* the names run looks up: the NAME of every token classified as a long option
LookedUpNames == { NameOf(argv[i]) : i \in { j \in TokenIndices : cls[j] = "long" } }

\* the Options that declare a name of which the name, empty or not, is a
\* proper prefix
ProperPrefixOwners(name) ==
    { k \in OptionIndices : \E n \in LongNames(k) : IsProperPrefixOf(name, n) }

----------------------------------------------------------------------------
(* C16 *)

\* C16: a long-option token whose NAME is declared as a long name by exactly
\* one Option selects that Option, however many other Options declare a
\* name of which NAME is a proper prefix: every handler invoked for the token
\* is that Option's, and run either invokes it once or throws for the
\* Option's arity (ArgumentNotAllowed, ArgumentRequired), never
\* AmbiguousOption.
C16_ExactWinsOverPartials ==
    \A i \in TokenIndices : \A k \in OptionIndices :
        ( cls[i] = "long" /\ ExactOwners(NameOf(argv[i])) = { k } )
            => /\ \A c \in 1..Len(CallsFor(i)) :
                    CallsFor(i)[c].h = "option" /\ CallsFor(i)[c].opt = k
               /\ IF Failed /\ FailTok = i
                     THEN /\ err.msg \in { "argument not allowed: ", "argument required: " }
                          /\ CallsFor(i) = <<>>
                     ELSE Len(CallsFor(i)) = 1

\* a run that returned after the token `--d` had invoked the Option that
\* declares d, two other Options declaring da and dc
C16_Witness ==
    /\ Returned
    /\ \E i \in TokenIndices : \E k \in OptionIndices :
          /\ cls[i] = "long"
          /\ ExactOwners(NameOf(argv[i])) = { k }
          /\ Cardinality(PrefixOwners(NameOf(argv[i])) \ { k }) >= 2
          /\ CallsFor(i) = << OptionCall(k, <<>>, i) >>

----------------------------------------------------------------------------
(* C17 *)

\* C17: a long-option token whose NAME is declared as a long name by two or
\* more Options, and a cluster whose leading characters each name one None
\* Option and whose next character is declared as a short name by two or more
\* Options, make run throw AmbiguousOption for the name; no handler of an
\* Option that declares the name is invoked for the token, wherever these
\* Options stand in the option sequence.
C17_DuplicateNameIsAmbiguous ==
    /\ \A i \in TokenIndices :
          ( cls[i] = "long" /\ Cardinality(ExactOwners(NameOf(argv[i]))) >= 2 )
              => /\ Failed /\ FailTok = i
                 /\ err = [msg |-> "ambiguous option: ",
                           what |-> <<"-","-">> \o NameOf(argv[i])]
                 /\ CallsFor(i) = <<>>
    /\ \A i \in TokenIndices : \A q \in 2..Len(argv[i]) :
          ( /\ cls[i] = "short"
            /\ Processed(i)
            /\ LeadingNones(argv[i], q)
            /\ Cardinality(ShortOwners(argv[i][q])) >= 2 )
              => /\ Failed /\ FailTok = i
                 /\ err = [msg |-> "ambiguous option: ", what |-> <<"-", argv[i][q]>>]
                 /\ CallsFor(i) = NoneCalls(i, q)
                 /\ \A c \in 1..Len(CallsFor(i)) :
                       CallsFor(i)[c].opt \notin ShortOwners(argv[i][q])

\* a run that threw AmbiguousOption at the second character of the cluster
\* `-ca`, a short name of the first and of the last of three Options, after
\* the handler of c and the handlers of an earlier token had been invoked
C17_Witness ==
    /\ Failed
    /\ Len(m_options) = 3
    /\ argv[FailTok] = <<"-","c","a">>
    /\ ShortOwners("a") = { 1, 3 }
    /\ err = [msg |-> "ambiguous option: ", what |-> <<"-","a">>]
    /\ CallsFor(FailTok) = << OptionCall(2, <<>>, FailTok) >>
    /\ CallsBefore(FailTok) # <<>>

----------------------------------------------------------------------------
(* C18 *)

\* the invocations of Option handlers made so far
OptionCalls == { c \in 1..Len(calls) : calls[c].h = "option" }

\* C18: every invocation of an Option made by execute() is of an Option
\* whose arity is not Required, and every invocation made by execute(arg) is
\* of an Option whose arity is not None: the assertions of execute(), of
\* execute(arg) and of the wrapper of a Required handler hold at every call.
C18_ExecuteFormFitsArity ==
    \A c \in OptionCalls :
        /\ calls[c].arg = <<>> => m_options[calls[c].opt].m_arg_type # "required"
        /\ calls[c].arg # <<>> => m_options[calls[c].opt].m_arg_type # "none"

\* a run that returned after it had invoked a None Option without argument, a
\* Required Option with one, and an Optional Option in both forms
C18_Witness ==
    /\ Returned
    /\ \E a, b, c, d \in OptionCalls :
          /\ m_options[calls[a].opt].m_arg_type = "none" /\ calls[a].arg = <<>>
          /\ m_options[calls[b].opt].m_arg_type = "required" /\ calls[b].arg # <<>>
          /\ m_options[calls[c].opt].m_arg_type = "optional" /\ calls[c].arg = <<>>
          /\ m_options[calls[d].opt].m_arg_type = "optional" /\ calls[d].arg # <<>>

----------------------------------------------------------------------------
(* C19 *)

\* token i was taken as the value of the option token before it: no handler
\* was invoked for it, and the scan goes on with the token after it
TakenAsValue(i) ==
    /\ cls[i] = "value"
    /\ CallsFor(i) = <<>>
    /\ ClassifiedOnItsOwn(i + 1)

\* C19: a Required Option selected by a long-option token without `=`, or
\* named by the last character of a cluster whose leading characters each
\* name one None Option, and followed by another token, takes that token as
\* its value whatever the token looks like: its handler is invoked once with
\* the token as it stands, the token is not classified by the scan, and the
\* scan goes on with the token after it.
C19_RequiredTakesNextToken ==
    /\ \A i \in TokenIndices : \A k \in OptionIndices :
          ( /\ cls[i] = "long"
            /\ ~HasValue(argv[i])
            /\ SelectsLong(NameOf(argv[i]), k)
            /\ m_options[k].m_arg_type = "required"
            /\ i < Len(argv) )
              => /\ CallsFor(i) = << OptionCall(k, << argv[i + 1] >>, i) >>
                 /\ TakenAsValue(i + 1)
    /\ \A i \in TokenIndices :
          ( /\ cls[i] = "short"
            /\ Processed(i)
            /\ LeadingNones(argv[i], Len(argv[i]))
            /\ UniquelyShort(argv[i][Len(argv[i])], "required")
            /\ i < Len(argv) )
              => /\ CallsFor(i) =
                      Append(NoneCalls(i, Len(argv[i])),
                             OptionCall(ShortOwner(argv[i][Len(argv[i])]),
                                        << argv[i + 1] >>, i))
                 /\ TakenAsValue(i + 1)

\* a run in which a Required Option selected by a long-option token took the
\* token `--` as its value and the token after it, which has the shape of an
\* option, was dispatched as an option
C19_Witness ==
    \E i \in TokenIndices : \E k \in OptionIndices :
        /\ i + 2 <= Len(argv)
        /\ cls[i] = "long"
        /\ argv[i + 1] = <<"-","-">>
        /\ CallsFor(i) = << OptionCall(k, << <<"-","-">> >>, i) >>
        /\ cls[i + 1] = "value"
        /\ cls[i + 2] \in { "long", "short" }
        /\ Len(CallsFor(i + 2)) = 1
        /\ CallsFor(i + 2)[1].h = "option"

----------------------------------------------------------------------------
(* C20 *)

\* the option sequence with the Option m_options[p[k]] at position k
Permuted(p) == [k \in 1..Len(m_options) |-> m_options[p[k]]]

\* the invocations cs made with the options Permuted(p), each Option named by
\* its position in m_options
InDeclaredOrder(cs, p) ==
    [c \in 1..Len(cs) |->
        IF cs[c].h = "option" THEN [cs[c] EXCEPT !.opt = p[cs[c].opt]] ELSE cs[c]]

\* C20: when run has returned or thrown, the handler invocations it made, in
\* order and with their arguments, and the error it threw if any, are those
\* of run over the same tokens with the Options in any other order.
C20_OptionOrderIrrelevant ==
    (Returned \/ Failed) =>
        \A p \in Permutations(OptionIndices) :
            LET other == run(Permuted(p), m_flag, unrec_default, argv)
            IN  /\ InDeclaredOrder(other.calls, p) = calls
                /\ other.err = err

\* a run over three tokens that invoked handlers of the first and of the last
\* of three Options, one of them selected by a proper prefix of its long name
C20_Witness ==
    /\ Returned
    /\ Len(m_options) = 3
    /\ Len(argv) = 3
    /\ \E a, b \in OptionCalls : calls[a].opt = 1 /\ calls[b].opt = 3
    /\ \E i \in TokenIndices :
          /\ cls[i] = "long"
          /\ ExactOwners(NameOf(argv[i])) = {}
          /\ Len(CallsFor(i)) = 1
          /\ CallsFor(i)[1].h = "option"

----------------------------------------------------------------------------
(* C21 *)

\* what get_help has written after the header and its line feed
ListingBody == SubSeq(ss, Len(header) + 2, Len(ss))

\* the lines of s, one more than it has line feeds
RECURSIVE LinesOf(_)
LinesOf(s) ==
    LET e == FirstLF(s, 1)
    IN  IF e = 0 THEN << s >>
        ELSE << SubSeq(s, 1, e - 1) >> \o LinesOf(SubSeq(s, e + 1, Len(s)))

\* the lines of the blocks of the options k .. Len(m_options), an empty line
\* between two blocks
RECURSIVE BlocksAndBlankLinesFrom(_)
BlocksAndBlankLinesFrom(k) ==
    IF k > Len(m_options) THEN <<>>
    ELSE BlockLines(k)
         \o (IF k < Len(m_options) THEN << <<>> >> ELSE <<>>)
         \o BlocksAndBlankLinesFrom(k + 1)

\* C21 as stated: in the listing of two or more options, between the last
\* line of an Option's block and the first line of the next Option's block
\* there is an empty line.
C21_BlankLineBetweenBlocks ==
    ( help_pc = "returned" /\ Len(m_options) >= 2 )
        => LinesOf(ListingBody) = BlocksAndBlankLinesFrom(1)

\* C21, amended: in the listing of two or more options the first line of an
\* Option's block is the line right after the last line of the block before
\* it: the blocks are separated by one line feed, and no line after the header
\* is empty.
C21_LineFeedBetweenBlocks ==
    ( help_pc = "returned" /\ Len(m_options) >= 2 )
        => /\ LinesOf(ListingBody) = BlocksFrom(1)
           /\ \A l \in 1..Len(LinesOf(ListingBody)) : LinesOf(ListingBody)[l] # <<>>

\* get_help returned the listing of three options, the second of them with a
\* description of several lines, one of which is empty
C21_Witness ==
    /\ help_pc = "returned"
    /\ Len(m_options) = 3
    /\ Len(BlockLines(2)) >= 3
    /\ \E j \in 1..Len(DescriptionLines(m_options[2].m_description)) :
          DescriptionLines(m_options[2].m_description)[j] = <<>>
    /\ Len(LinesOf(ListingBody)) = Len(BlockLines(1)) + Len(BlockLines(2)) + Len(BlockLines(3))

----------------------------------------------------------------------------
(* C22 *)

\* C22: a token `-` reached by the scan is an operand, never a cluster: no
\* handler but the non-option handler is invoked for it; in standard mode the
\* non-option handler is invoked once with it and the scan goes on with the
\* next token; in posixly-correct mode run returns after it and every later
\* token have gone to the non-option handler, in order.
C22_BareHyphenIsOperand ==
    \A i \in TokenIndices :
        ( argv[i] = <<"-">> /\ Reached(i) )
            => /\ cls[i] = "operand"
               /\ \A c \in 1..Len(CallsFor(i)) : CallsFor(i)[c].h = "non_option"
               /\ m_flag = "none" =>
                     /\ CallsFor(i) = << OperandCall(i) >>
                     /\ ~(Failed /\ FailTok = i)
                     /\ ClassifiedOnItsOwn(i + 1)
               /\ m_flag = "posixly_correct" =>
                     /\ Returned
                     /\ CallsFrom(i) = [j \in 1..(Len(argv) - i + 1) |-> OperandCall(i + j - 1)]

\* a standard-mode run that handed `-` to the non-option handler between two
\* tokens that it dispatched as options
C22_Witness ==
    /\ Returned
    /\ m_flag = "none"
    /\ Len(argv) = 3
    /\ argv[2] = <<"-">>
    /\ CallsFor(2) = << OperandCall(2) >>
    /\ \A i \in { 1, 3 } :
          /\ cls[i] \in { "long", "short" }
          /\ CallsFor(i) # <<>>
          /\ CallsFor(i)[1].h = "option"

----------------------------------------------------------------------------
(* C23 *)

\* a step of run moves forward: to a later token, or within the token to a
\* later character of its cluster, or it ends run
MovesForward ==
    \/ it' > it
    \/ it' = it /\ pc' = "cluster" /\ cit' > cit
    \/ it' = it /\ pc' \in { "done", "failed" }

\* a pass of the loop over the tokens that ends with the loop going on has
\* consumed one token or more
ConsumesToken == (pc' = "scan") => it' > it

\* C23: run terminates: every step moves the cursor forward, every pass of
\* the loop over the tokens consumes at least one token, and eventually run
\* has returned, with the cursor at the end of the range and no token left
\* unseen, or has thrown.
C23_RunTerminates ==
    /\ [][MovesForward /\ ConsumesToken]_vars
    /\ [](Returned => (it = last /\ \A i \in TokenIndices : cls[i] # "unseen"))
    /\ <>(Returned \/ Failed)

\* a run that has returned after a cluster of more than one character whose
\* pass consumed two tokens
C23_Witness ==
    /\ Returned
    /\ Len(argv) = 2
    /\ \E i, j \in TokenIndices :
          /\ cls[i] = "value"
          /\ cls[j] = "short"
          /\ Len(CallsFor(j)) >= 2

----------------------------------------------------------------------------
(* C24 *)

\* token i dispatched Option handlers, one or more, and nothing else
IsOptionToken(i) ==
    /\ cls[i] \in { "long", "short" }
    /\ CallsFor(i) # <<>>
    /\ \A c \in 1..Len(CallsFor(i)) : CallsFor(i)[c].h = "option"

\* token i was handed, and to nothing else, to the Required Option that the
\* token before it dispatched last
IsConsumedValue(i) ==
    /\ i > 1
    /\ cls[i] = "value"
    /\ CallsFor(i) = <<>>
    /\ IsOptionToken(i - 1)
    /\ LET lastcall == CallsFor(i - 1)[Len(CallsFor(i - 1))]
       IN  /\ m_options[lastcall.opt].m_arg_type = "required"
           /\ lastcall.arg = << argv[i] >>

\* token i is the `--` that ended option scanning, handed to no handler
IsSeparator(i) ==
    /\ argv[i] = <<"-","-">>
    /\ cls[i] = "separator"
    /\ CallsFor(i) = <<>>

\* token i went to the non-option handler, once, and to nothing else
IsOperand(i) ==
    /\ cls[i] \in { "operand", "rest" }
    /\ CallsFor(i) = << OperandCall(i) >>

\* how many of the four accounts hold of token i
Accounts(i) ==
    (IF IsOptionToken(i) THEN 1 ELSE 0) + (IF IsConsumedValue(i) THEN 1 ELSE 0)
        + (IF IsSeparator(i) THEN 1 ELSE 0) + (IF IsOperand(i) THEN 1 ELSE 0)

\* C24: when run has returned without having invoked the
\* unrecognized-option handler, every token is exactly one of: an option token
\* that dispatched one or more Option handlers, the value a Required Option
\* took from the token before it, the `--` separator, an operand handed once
\* to the non-option handler; and the handler invocations, those of the
\* non-option handler among them, were made in the order of their tokens.
C24_EveryTokenAccountedOnce ==
    ( Returned /\ \A c \in 1..Len(calls) : calls[c].h # "unrec_option" )
        => /\ \A i \in TokenIndices : Accounts(i) = 1
           /\ \A c, d \in 1..Len(calls) : c < d => calls[c].tok <= calls[d].tok
           /\ \A c, d \in 1..Len(calls) :
                 ( c < d /\ calls[c].h = "non_option" /\ calls[d].h = "non_option" )
                     => calls[c].tok < calls[d].tok

\* a posixly-correct run that returned after an option token, the value it
\* took, which reads `--`, and an operand after it
C24_Witness ==
    /\ Returned
    /\ m_flag = "posixly_correct"
    /\ \A c \in 1..Len(calls) : calls[c].h # "unrec_option"
    /\ Len(argv) >= 3
    /\ IsOptionToken(1)
    /\ IsConsumedValue(2)
    /\ argv[2] = <<"-","-">>
    /\ IsOperand(3)

----------------------------------------------------------------------------
(* C25 *)

\* C25: a token `--` that the scan takes as the separator is handed to no
\* handler; in posixly-correct mode a token `--` that comes after the operand
\* at which the scan stopped is handed to the non-option handler, once, like
\* the other tokens after that operand.
C25_SeparatorAndLateDoubleHyphen ==
    \A i \in TokenIndices :
        /\ cls[i] = "separator" => ( argv[i] = <<"-","-">> /\ CallsFor(i) = <<>> )
        /\ ( /\ m_flag = "posixly_correct"
             /\ argv[i] = <<"-","-">>
             /\ \E j \in 1..(i - 1) : cls[j] = "operand" )
               => /\ Returned
                  /\ cls[i] = "rest"
                  /\ CallsFor(i) = << OperandCall(i) >>

\* a posixly-correct run over an option, an operand and `--`, in which the
\* non-option handler received the operand and then `--`
C25_Witness ==
    /\ Returned
    /\ m_flag = "posixly_correct"
    /\ Len(argv) = 3
    /\ IsOptionToken(1)
    /\ cls[2] = "operand"
    /\ argv[3] = <<"-","-">>
    /\ CallsFrom(2) = << OperandCall(2), OperandCall(3) >>

====
